---- MODULE Spec2Model ----
(***************************************************************************)
(* Model of src/explorer/models/azureRegistryNodes.ts:                     *)
(*   - restartContainer: the fan-out of one restart call per container,    *)
(*     the per-container callback and the aggregate promise that backs     *)
(*     the status-bar message (specification Spec);                        *)
(*   - AzureRegistryNode.getChildren, AzureRepositoryNode.getChildren and  *)
(*     AzureImageTagNode: the lazily expanded registry tree                *)
(*     (specification TreeSpec).                                           *)
(***************************************************************************)
EXTENDS Naturals, Sequences, FiniteSets

VARIABLES
    \* ---- restartContainer (lines 215-250) ----
    pc,                  \* "idle" before the command runs, "started" after line 233
    containersToRestart, \* line 217: sequence of container ids
    numContainers,       \* line 230
    containerCounter,    \* line 231
    inflight,            \* indices of containersToRestart whose restart was issued
                         \* and whose callback has not run yet
    promise,             \* state of the promise built at line 233
    calls,               \* every side-effecting call made by the callbacks, in order
    delivered,           \* the `err` argument each callback received, in callback order
    \* ---- tree model (lines 21-165) ----
    lastOp,              \* which getChildren ran last
    regElement,          \* the AzureRegistryNode expanded last
    regListing,          \* what getRepositoriesByRegistry returned to that call
    regOutcome,          \* "none" | "value" | "undefined" (wrapper swallowed a throw)
    repoNodes,           \* value returned by AzureRegistryNode.getChildren
    repoElement,         \* the AzureRepositoryNode expanded last
    imgListing,          \* what getImagesByRepository returned to that call
    imgOutcome,          \* "none" | "value" | "undefined"
    imageNodes,          \* value returned by AzureRepositoryNode.getChildren
    remoteCalls          \* collaborator calls made by the last getChildren, in order

restartVars == <<pc, containersToRestart, numContainers, containerCounter,
                 inflight, promise, calls, delivered>>
treeVars == <<lastOp, regElement, regListing, regOutcome, repoNodes,
              repoElement, imgListing, imgOutcome, imageNodes, remoteCalls>>
vars == <<restartVars, treeVars>>

\* ------------------------------------------------------------------ bounds
MaxContainers == 3
MaxRepos == 2
MaxImages == 2

\* ------------------------------------------------------------ small helpers
RECURSIVE SeqsUpTo(_, _)
SeqsUpTo(S, n) ==
    IF n = 0 THEN {<<>>}
    ELSE LET shorter == SeqsUpTo(S, n - 1)
         IN  shorter \cup {Append(s, x) : s \in {t \in shorter : Len(t) = n - 1}, x \in S}

Ascending(s) == \A i \in 1..Len(s) : \A j \in 1..Len(s) : i < j => s[i] < s[j]

RECURSIVE CountOp(_, _)
CountOp(log, op) ==
    IF log = <<>> THEN 0
    ELSE (IF Head(log).op = op THEN 1 ELSE 0) + CountOp(Tail(log), op)

\* =====================================================================
\* restartContainer
\* =====================================================================
ContainerIds == 1..MaxContainers

NoDesc == 0
NoError == [isError |-> FALSE, message |-> ""]
Errors == {[isError |-> TRUE, message |-> m] : m \in {"no such container", "server error"}}

\* the command's `context` argument: RootNode | ContainerNode | undefined
Contexts ==
    {[kind |-> "undefined", containerDesc |-> NoDesc],
     [kind |-> "RootNode", containerDesc |-> NoDesc],
     [kind |-> "ContainerNode", containerDesc |-> NoDesc]}
    \cup {[kind |-> "ContainerNode", containerDesc |-> d] : d \in ContainerIds}

\* what quickPickContainerOrAll can hand back: any selection of the listed
\* containers (possibly none), in listing order
Picks == {s \in SeqsUpTo(ContainerIds, MaxContainers) : Ascending(s)}

\* lines 219-228
TargetsOf(context, picked) ==
    IF context.kind = "ContainerNode" /\ context.containerDesc # NoDesc
    THEN <<context.containerDesc>>
    ELSE picked

\* line 234: containersToRestart.forEach issues one restart per element
ForEachMutExtra(containers) == 0..Len(containers)
ForEach(containers) == 1..Len(containers)

\* Promise settlement: resolve/reject act only on a pending promise
reject(p) == IF p = "pending" THEN "rejected" ELSE p
resolve(p) == IF p = "pending" THEN "resolved" ELSE p

Call(op, arg, cb) == [op |-> op, arg |-> arg, cb |-> cb]

\* line 238: if (err)
Failed(err) == err.isError

\* line 243: if (containerCounter === numContainers)
CompleteMutOffByOne(c, n) == c + 1 = n
CompleteMutAny(c, n) == c >= 1
Complete(c, n) == c = n

\* lines 239-241
FailureStepMutNoRefresh(err, c) ==
    <<Call("showErrorMessage", err.message, c), Call("reject", "", c)>>
FailureStep(err, c) ==
    <<Call("showErrorMessage", err.message, c),
      Call("refreshContainers", "", c),
      Call("reject", "", c)>>

\* lines 244-245
CompletionStepMutNoRefresh(c) == <<Call("resolve", "", c)>>
CompletionStep(c) ==
    <<Call("refreshContainers", "", c), Call("resolve", "", c)>>

\* lines 237-246: the calls one callback makes, given the counter it has
\* just incremented to c
CallbackCalls(err, c, n) ==
    (IF Failed(err) THEN FailureStep(err, c) ELSE <<>>)
    \o (IF Complete(c, n) THEN CompletionStep(c) ELSE <<>>)

RECURSIVE Settle(_, _)
Settle(p, cs) ==
    IF cs = <<>> THEN p
    ELSE Settle(CASE Head(cs).op = "reject" -> reject(p)
                  [] Head(cs).op = "resolve" -> resolve(p)
                  [] OTHER -> p,
                Tail(cs))

\* lines 215-249 up to the end of the promise executor, which runs
\* synchronously inside `new Promise`
restartContainer(context, picked) ==
    /\ pc = "idle"
    /\ LET targets == TargetsOf(context, picked)
       IN  /\ containersToRestart' = targets
           /\ numContainers' = Len(targets)
           /\ inflight' = ForEach(targets)
    /\ containerCounter' = 0
    /\ promise' = "pending"
    /\ pc' = "started"
    /\ UNCHANGED <<calls, delivered, treeVars>>

\* lines 236-247: the callback of the restart issued for containersToRestart[i]
RestartCallback(i, err) ==
    /\ pc = "started"
    /\ i \in inflight
    /\ inflight' = inflight \ {i}
    /\ containerCounter' = containerCounter + 1
    /\ LET cs == CallbackCalls(err, containerCounter + 1, numContainers)
       IN  /\ calls' = calls \o cs
           /\ promise' = Settle(promise, cs)
    /\ delivered' = Append(delivered, err)
    /\ UNCHANGED <<pc, containersToRestart, numContainers, treeVars>>

RestartInit ==
    /\ pc = "idle"
    /\ containersToRestart = <<>>
    /\ numContainers = 0
    /\ containerCounter = 0
    /\ inflight = {}
    /\ promise = "none"
    /\ calls = <<>>
    /\ delivered = <<>>

\* =====================================================================
\* tree model
\* =====================================================================
NoAccount == "undefined"
Accounts == {"account"}
Subscriptions == {"sub1", "sub2"}
Registries == {[name |-> "reg1", loginServer |-> "reg1.azurecr.io"]}
RegistryLabels == {"reg1", "app"}
RepoNames == {"app", "base"}
Tags == {"latest", "v1"}
Created == {"t0"}

\* lines 22-29
AzureRegistryNode(label, azureAccount, registry, subscription) ==
    [kind |-> "AzureRegistryNode", label |-> label, azureAccount |-> azureAccount,
     registry |-> registry, subscription |-> subscription]

RegistryNodes ==
    {AzureRegistryNode(l, a, r, s) :
        l \in RegistryLabels, a \in Accounts \cup {NoAccount},
        r \in Registries, s \in Subscriptions}

\* TaskRootNode (./taskNode): constructor arguments kept as fields
TaskRootNode(label, azureAccount, subscription, registry) ==
    [kind |-> "TaskRootNode", label |-> label, azureAccount |-> azureAccount,
     subscription |-> subscription, registry |-> registry]

\* lines 81-90: NodeBase's label is the first argument, repositoryName the sixth
AzureRepositoryNode(label, parent, azureAccount, subscription, registry, repositoryName) ==
    [kind |-> "AzureRepositoryNode", label |-> label, parent |-> parent,
     azureAccount |-> azureAccount, subscription |-> subscription,
     registry |-> registry, repositoryName |-> repositoryName]

\* line 155
getImageNameWithTag(repositoryName, tag) == repositoryName \o ":" \o tag

\* lines 138-149: the label handed to NodeBase is getImageNameWithTag(...)
AzureImageTagNode(azureAccount, parent, subscription, registry, serverUrl, repositoryName, tag, created) ==
    [kind |-> "AzureImageTagNode",
     label |-> getImageNameWithTag(repositoryName, tag),
     azureAccount |-> azureAccount, parent |-> parent,
     subscription |-> subscription, registry |-> registry,
     serverUrl |-> serverUrl, repositoryName |-> repositoryName,
     tag |-> tag, created |-> created]

\* Repository (utils/Azure/models/repository): a registry and a name
Repository(registry, name) == [registry |-> registry, name |-> name]

\* getLoginServer (utils/nonNull): the registry's login server
getLoginServer(registry) == registry.loginServer

\* AzureImage (utils/Azure/models/image) as getImagesByRepository builds it
\* for one remote tag of `repo`
AzureImage(repo, subscription, tag, created) ==
    [registry |-> repo.registry, repository |-> repo, subscription |-> subscription,
     tag |-> tag, created |-> created]

\* what a collaborator call can do: return a value or throw
Returned(v) == [throws |-> FALSE, value |-> v]
Thrown == [throws |-> TRUE, value |-> <<>>]

\* getRepositoriesByRegistry(registry): any sequence of repositories of it
RepoListings ==
    {Returned([i \in 1..Len(ns) |-> Repository(r, ns[i])]) :
        ns \in SeqsUpTo(RepoNames, MaxRepos), r \in Registries} \cup {Thrown}

\* the remote's answer to an image listing: (tag, created) pairs
TagListings ==
    {Returned([i \in 1..Len(ts) |-> [tag |-> ts[i], created |-> c]]) :
        ts \in SeqsUpTo(Tags, MaxImages), c \in Created} \cup {Thrown}

\* getImagesByRepository(repo): one AzureImage per remote tag, in remote order
getImagesByRepository(repo, subscription, remote) ==
    [i \in 1..Len(remote) |-> AzureImage(repo, subscription, remote[i].tag, remote[i].created)]

\* callWithTelemetryAndErrorHandling: a throw inside the callback is reported
\* and the wrapper returns undefined; otherwise the callback's value
Wrapped(threw, nodes, remote) ==
    [outcome |-> IF threw THEN "undefined" ELSE "value",
     nodes |-> IF threw THEN <<>> ELSE nodes,
     remote |-> remote]

\* lines 59-61: if (!me.azureAccount)
SignedOutMutNever(me) == FALSE
SignedOut(me) == me.azureAccount = NoAccount

\* lines 53-76: the list built for a listing of `repositories`
RegistryNodeListMutTaskLast(me, element, repositories) ==
    [i \in 1..Len(repositories) |->
        AzureRepositoryNode(repositories[i].name, element, me.azureAccount,
                            element.subscription, element.registry, element.label)]
    \o <<TaskRootNode("Tasks", element.azureAccount, element.subscription, element.registry)>>
RegistryNodeList(me, element, repositories) ==
    <<TaskRootNode("Tasks", element.azureAccount, element.subscription, element.registry)>>
    \o [i \in 1..Len(repositories) |->
            AzureRepositoryNode(repositories[i].name, element, me.azureAccount,
                                element.subscription, element.registry, element.label)]

\* lines 46-78: what getChildren returns and which collaborators it called
RegistryGetChildren(me, element, listing) ==
    IF SignedOut(me)
    THEN Wrapped(FALSE, <<>>, <<>>)
    ELSE Wrapped(listing.throws,
                 RegistryNodeList(me, element, listing.value),
                 <<"getRepositoriesByRegistry">>)

\* lines 115-132: the list built for the images of the repository
ImageNodeList(element, images) ==
    [i \in 1..Len(images) |->
        AzureImageTagNode(element.azureAccount, element, images[i].subscription,
                          images[i].registry, getLoginServer(images[i].registry),
                          images[i].repository.name, images[i].tag, images[i].created)]

\* line 117: Repository.Create(element.registry, element.label)
RepoHandleMutRepositoryName(element) == Repository(element.registry, element.repositoryName)
RepoHandle(element) == Repository(element.registry, element.label)

\* lines 108-134
RepositoryGetChildren(element, remote) ==
    Wrapped(remote.throws,
            ImageNodeList(element,
                          getImagesByRepository(RepoHandle(element),
                                                element.subscription, remote.value)),
            <<"Repository.Create", "getImagesByRepository">>)

\* the tree view expands a registry node: element.getChildren(element)
ExpandRegistry(element, listing) ==
    LET r == RegistryGetChildren(element, element, listing)
    IN  /\ lastOp' = "registry"
        /\ regElement' = element
        /\ regListing' = IF r.remote = <<>> \/ listing.throws THEN <<>> ELSE listing.value
        /\ regOutcome' = r.outcome
        /\ repoNodes' = r.nodes
        /\ remoteCalls' = r.remote
        /\ UNCHANGED <<repoElement, imgListing, imgOutcome, imageNodes, restartVars>>

\* the tree view expands one of the repository nodes it was given
ExpandRepository(i, remote) ==
    /\ i \in 1..Len(repoNodes)
    /\ repoNodes[i].kind = "AzureRepositoryNode"
    /\ LET element == repoNodes[i]
           r == RepositoryGetChildren(element, remote)
       IN  /\ lastOp' = "repository"
           /\ repoElement' = element
           /\ imgListing' = remote.value
           /\ imgOutcome' = r.outcome
           /\ imageNodes' = r.nodes
           /\ remoteCalls' = r.remote
    /\ UNCHANGED <<regElement, regListing, regOutcome, repoNodes, restartVars>>

TreeInit ==
    /\ lastOp = "none"
    /\ regElement = AzureRegistryNode("reg1", NoAccount,
                                      [name |-> "reg1", loginServer |-> "reg1.azurecr.io"],
                                      "sub1")
    /\ regListing = <<>>
    /\ regOutcome = "none"
    /\ repoNodes = <<>>
    /\ repoElement = regElement
    /\ imgListing = <<>>
    /\ imgOutcome = "none"
    /\ imageNodes = <<>>
    /\ remoteCalls = <<>>

Init == RestartInit /\ TreeInit

Next ==
    \/ \E context \in Contexts, picked \in Picks : restartContainer(context, picked)
    \/ \E i \in inflight, err \in Errors \cup {NoError} : RestartCallback(i, err)

Spec == Init /\ [][Next]_vars

TreeNext ==
    \/ \E element \in RegistryNodes, listing \in RepoListings : ExpandRegistry(element, listing)
    \/ \E i \in 1..Len(repoNodes), remote \in TagListings : ExpandRepository(i, remote)

TreeSpec == Init /\ [][TreeNext]_vars

\* =====================================================================
\* properties of restartContainer (checked under Spec)
\* =====================================================================
Refreshes == CountOp(calls, "refreshContainers")
Rejects == CountOp(calls, "reject")
Resolves == CountOp(calls, "resolve")

\* the calls made by the k-th callback
CallsOf(k) == SelectSeq(calls, LAMBDA c : c.cb = k)

FailedAt == {k \in 1..Len(delivered) : delivered[k].isError}
AllFired == pc = "started" /\ Len(delivered) = numContainers

\* position of the first call of callback k named op (0 when there is none)
PosOf(op, k) ==
    LET hits == {j \in 1..Len(calls) : calls[j].op = op /\ calls[j].cb = k}
    IN  IF hits = {} THEN 0 ELSE CHOOSE j \in hits : \A h \in hits : j <= h

\* C1: in a batch of N >= 1 containers whose callbacks all report no error,
\* the promise is pending and resolve has not been invoked while fewer than
\* N callbacks have fired; once all N have fired it is resolved, resolve was
\* invoked exactly once, by the N-th callback, and reject was never invoked.
C1_AllSucceedResolvesOnce ==
    (pc = "started" /\ numContainers >= 1 /\ FailedAt = {}) =>
        /\ Rejects = 0
        /\ promise # "rejected"
        /\ IF Len(delivered) = numContainers
           THEN /\ promise = "resolved"
                /\ Resolves = 1
                /\ PosOf("resolve", numContainers) # 0
           ELSE /\ promise = "pending"
                /\ Resolves = 0

C1_Witness ==
    /\ AllFired
    /\ numContainers >= 2
    /\ FailedAt = {}
    /\ promise = "resolved"

\* C2: in a batch of N > 1 containers where exactly one callback reported an
\* error (whatever its position), the promise is rejected, reject was invoked
\* exactly once, the promise is not resolved at any point, the failing call's
\* error text was shown, and the failing callback's refresh precedes its reject.
C2_SingleFailureRejectsOnce ==
    /\ (pc = "started" /\ Len(delivered) < numContainers) => promise # "resolved"
    /\ (pc = "started" /\ numContainers > 1 /\ Cardinality(FailedAt) = 1) =>
          LET k == CHOOSE f \in FailedAt : TRUE
          IN  /\ promise = "rejected"
              /\ Rejects = 1
              /\ \E j \in 1..Len(calls) :
                    /\ calls[j].op = "showErrorMessage"
                    /\ calls[j].cb = k
                    /\ calls[j].arg = delivered[k].message
              /\ PosOf("refreshContainers", k) # 0
              /\ PosOf("reject", k) # 0
              /\ PosOf("refreshContainers", k) < PosOf("reject", k)

\* the failing callback is the last of three: reject and then resolve are
\* both invoked by it, and the promise stays rejected
C2_Witness ==
    /\ AllFired
    /\ numContainers = 3
    /\ FailedAt = {3}
    /\ promise = "rejected"
    /\ Resolves = 1

C4_EmptyBatchStaysPending ==
    (pc = "started" /\ numContainers = 0) =>
        /\ inflight = {}
        /\ delivered = <<>>
        /\ calls = <<>>
        /\ containerCounter = 0
        /\ promise = "pending"
        /\ ~ ENABLED Next

C4_Witness == pc = "started" /\ numContainers = 0 /\ containersToRestart = <<>>

\* C8 as stated: no callback refreshes twice or invokes both reject and
\* resolve, and a callback whose call failed makes only the failure step.
C8_OneStepPerCallback ==
    \A k \in 1..Len(delivered) :
        /\ Len(SelectSeq(CallsOf(k), LAMBDA c : c.op = "refreshContainers")) <= 1
        /\ ~ (PosOf("reject", k) # 0 /\ PosOf("resolve", k) # 0)
        /\ delivered[k].isError => PosOf("resolve", k) = 0

\* C9: the promise settles at most once and keeps its outcome; the counter
\* counts every callback and never exceeds N; once a failure has been
\* observed the promise is rejected; it is resolved only if all N callbacks
\* fired without error.
C9_StateOk ==
    /\ containerCounter = Len(delivered)
    /\ containerCounter <= numContainers
    /\ promise \in {"none", "pending", "resolved", "rejected"}
    /\ FailedAt # {} => promise = "rejected"
    /\ promise = "resolved" => (FailedAt = {} /\ Len(delivered) = numContainers)

C9_SettlesAtMostOnce ==
    /\ [] C9_StateOk
    /\ [][(promise \in {"resolved", "rejected"}) => (promise' = promise)]_vars

\* a callback arrives after the promise was rejected and leaves it rejected
C9_Witness ==
    /\ AllFired
    /\ numContainers = 3
    /\ FailedAt = {1, 2}
    /\ Rejects = 2
    /\ promise = "rejected"

\* =====================================================================
\* properties of the tree model (checked under TreeSpec)
\* =====================================================================
\* C5: expanding a registry node that has no account returns an empty list
\* (a value, not a failure), without calling the repository listing and
\* without the task-root node.
C5_SignedOutReturnsEmpty ==
    (lastOp = "registry" /\ regElement.azureAccount = NoAccount) =>
        /\ regOutcome = "value"
        /\ repoNodes = <<>>
        /\ remoteCalls = <<>>
        /\ \A i \in 1..Len(repoNodes) : repoNodes[i].kind # "TaskRootNode"

C5_Witness ==
    /\ lastOp = "registry"
    /\ regElement.azureAccount = NoAccount
    /\ regElement.label = "app"

\* C6: expanding a signed-in registry whose listing returned k repositories
\* gives k + 1 nodes: the task-root node, then one repository node per
\* repository, labelled with its name, in listing order.
C6_TaskRootThenRepositories ==
    (regOutcome = "value" /\ regElement.azureAccount # NoAccount) =>
        /\ Len(repoNodes) = Len(regListing) + 1
        /\ repoNodes[1].kind = "TaskRootNode"
        /\ \A i \in 1..Len(regListing) :
              /\ repoNodes[i + 1].kind = "AzureRepositoryNode"
              /\ repoNodes[i + 1].label = regListing[i].name

C6_Witness ==
    /\ regOutcome = "value"
    /\ regElement.azureAccount # NoAccount
    /\ Len(regListing) = 2
    /\ regListing[1].name = "base"
    /\ regListing[2].name = "app"

\* C7: expanding a repository node whose image listing returned m images
\* gives m tagged-image nodes in listing order, each labelled
\* "<repository name>:<tag>" with the name of the expanded repository.
C7_ImageNodesLabelled ==
    imgOutcome = "value" =>
        /\ Len(imageNodes) = Len(imgListing)
        /\ \A i \in 1..Len(imgListing) :
              /\ imageNodes[i].kind = "AzureImageTagNode"
              /\ imageNodes[i].tag = imgListing[i].tag
              /\ imageNodes[i].label = repoElement.label \o ":" \o imgListing[i].tag

C7_Witness ==
    /\ imgOutcome = "value"
    /\ Len(imgListing) = 2
    /\ imgListing[1].tag = "v1"
    /\ imgListing[2].tag = "latest"
    /\ repoElement.label = "base"
    /\ imageNodes[1].label = "base:v1"

\* C10 as stated: every repository node made by the registry expansion has
\* repositoryName equal to its repository's name (its label), and the
\* account, subscription and registry of the expanded node.
C10_RepositoryNodeCarriesItsName ==
    (regOutcome = "value" /\ regElement.azureAccount # NoAccount) =>
        \A i \in 1..Len(regListing) :
            /\ repoNodes[i + 1].repositoryName = regListing[i].name
            /\ repoNodes[i + 1].repositoryName = repoNodes[i + 1].label
            /\ repoNodes[i + 1].azureAccount = regElement.azureAccount
            /\ repoNodes[i + 1].subscription = regElement.subscription
            /\ repoNodes[i + 1].registry = regElement.registry

====
